---- MODULE Spec2Model ----
(***************************************************************************)
(* Model of the real-time agent-interaction client of Alex-coo:            *)
(*   lib/websocket.ts  (connectThoughtStream, disconnectThoughtStream,     *)
(*                      sendChatMessage)                                   *)
(*   lib/store.ts      (useChatStore, useThoughtStore,                     *)
(*                      useActiveDashboardStore)                           *)
(*   app/chat/page.tsx (handleSend, handleStop)                            *)
(*   components/layout/FloatingChatBar.tsx (handleSend)                    *)
(*                                                                         *)
(* Execution is a single-threaded event loop.  One action of the model is  *)
(* one macrotask (a socket event, a timer, a user gesture) together with   *)
(* the microtasks it queues: the continuation of `await sendChatMessage`   *)
(* runs in the same action as the handler that settled the promise.        *)
(***************************************************************************)
EXTENDS Integers, Sequences, FiniteSets, TLC

\* ---------------------------------------------------------------- bounds
MaxEx == 2          \* exchanges dispatched in one run
MaxAmb == 2         \* ambient sockets constructed in one run
MaxThoughts == 2    \* thought frames delivered in one run
MaxTimers == 2      \* reconnect timeouts the platform holds at once
MaxSessions == 3    \* session ids generated in one run
MaxMsgs == 3        \* messages added through the store in one run
MaxClock == 2       \* milliseconds that pass in one run
MaxCharts == 3      \* charts of the active dashboard

\* retention bound of the persisted conversations: convos.slice(0, 30),
\* scaled down so that more sessions than the bound are archived
HistoryCap == 2

ExIds == 1..MaxEx
AmbIds == 1..MaxAmb
TimerIds == 1..MaxTimers

\* generateId(): a fresh string on every call
SessionName(n) == "s" \o ToString(n)
SessionIds == {SessionName(n) : n \in 1..MaxSessions}

\* ------------------------------------------------------------ data values
None == <<>>
Some(x) == <<x>>
IsSome(o) == o # <<>>

ThoughtTypes ==
  {"thinking", "executing_sql", "found_insight", "generating_chart", "error"}

DashIds == {"d1", "d2"}

\* charts of the source definition of a dashboard (DEMO_DASHBOARDS[id].charts)
SourceCharts(d) == IF d = "d1" THEN <<"c1">> ELSE <<"c2">>
\* title of the source definition of a dashboard
SourceTitle(d) == IF d = "d1" THEN "Revenue" ELSE "Costs"

\* a hole of a JavaScript array (an index below length that was never
\* assigned), the value undefined and the JSON value null
Hole == "<empty>"
Undefined == "undefined"
Null == "null"

\* arguments of the chart operations of the active dashboard store
NewCharts == {"x"}
NewChartLists == {<<>>, <<"x", "y", "z">>}
ChartIndexes == -1..MaxCharts - 1

\* text under a dashboard-<id> key: JSON of a list, or text JSON.parse rejects
JsonOf(list) == [parses |-> TRUE, value |-> list]
Unparsable == [parses |-> FALSE, value |-> <<>>]

\* what a page load can find under a dashboard-<id> key
FoundInStorage ==
  {<<>>, <<Unparsable>>, <<JsonOf(<<>>)>>, <<JsonOf(<<"p">>)>>}

\* Inbound frames of the per-exchange channel, after JSON.parse.  An absent
\* optional field is None.  "garbage" stands for a payload JSON.parse rejects.
\* thought_type values the modelled backend puts on exchange frames: both
\* kinds the exchange handler latches on and one it does not
ChatThoughtTypes == {"thinking", "executing_sql", "found_insight"}

ThoughtFrames == {[type |-> "thought", thought_type |-> t] : t \in ChatThoughtTypes}

ResponseFrames ==
  { [type |-> "response", reply |-> "ok", charts |-> None,
     session_id |-> None, intent |-> None, dashboard_update |-> None],
    [type |-> "response", reply |-> "ok", charts |-> Some(<<"c3">>),
     session_id |-> Some("srv"), intent |-> Some("dashboard"),
     dashboard_update |-> None],
    [type |-> "response", reply |-> "", charts |-> Some(<<"c3">>),
     session_id |-> None, intent |-> None,
     dashboard_update |-> Some([action |-> "replace_all", charts |-> Some(<<"c4">>)])] }

DoneFrame == [type |-> "done"]

ErrorFrames == {[type |-> "error", content |-> c] : c \in {"", "boom"}}

GarbageFrame == [type |-> "garbage"]

ChatFrames ==
  ThoughtFrames \cup ResponseFrames \cup {DoneFrame} \cup ErrorFrames \cup {GarbageFrame}

\* Inbound frames of the ambient channel: {type, content, metadata?, timestamp?}
AmbientFrames == {[type |-> t] : t \in ThoughtTypes} \cup {GarbageFrame}

\* the frames JSON.parse accepts
ParsedChatFrames == ChatFrames \ {GarbageFrame}
ParsedAmbientFrames == AmbientFrames \ {GarbageFrame}

TransportMsg == "Could not connect to Alex. Is the backend running?"
CtorMsg == "SyntaxError"

Pending == [k |-> "pending"]
Fulfilled(v) == [k |-> "ok", v |-> v]
Rejected(m) == [k |-> "err", m |-> m]

\* ---------------------------------------------------------------- state
VARIABLES
  thoughtSocket,   \* websocket.ts: id of the ambient socket, 0 = null
  chatSocket,      \* websocket.ts: id of the last exchange socket, 0 = null
  reconnectTimer,  \* websocket.ts: handle of the reconnect timeout, 0 = null
  timers,          \* platform: handles of the timeouts scheduled and not yet
                   \* fired or cleared
  ambRs,           \* readyState of every ambient socket constructed
  ambNext,         \* number of ambient sockets constructed
  chatRs,          \* readyState of the socket of every exchange
  nextEx,          \* number of exchanges dispatched
  origin,          \* calling surface of every exchange: "chat", "bar"
  reqSession,      \* sessionId argument of every sendChatMessage call
  reqContext,      \* context argument of every sendChatMessage call: the id
                   \* of context.dashboard, "" when undefined
  responseData,    \* closure variable responseData of every exchange
  promise,         \* state of the promise returned by sendChatMessage
  sent,            \* request payloads written to every exchange socket
  thoughts,        \* useThoughtStore.thoughts
  isProcessing,    \* useThoughtStore.isProcessing
  messages,        \* useChatStore.messages
  isLoading,       \* useChatStore.isLoading
  sessionId,       \* useChatStore.sessionId
  abortRef,        \* chat page: abortRef.current
  barLoading,      \* FloatingChatBar: isLoading
  panel,           \* FloatingChatBar: messages
  dashboard,       \* useActiveDashboardStore.dashboard (None = null)
  persisted,       \* localStorage: dashboard-<id> -> text (None = absent)
  watched,         \* history: session id and content of one assistant
                   \* message added through the store, picked when it was
                   \* added, and whether the record of that session was
                   \* deleted since
  lastOp,          \* history: the last operation a page or caller applied to
                   \* the active dashboard store, whether a dashboard was
                   \* active when it ran, and the dashboard it cleared when
                   \* it was setDashboard(null)
  dashboards,      \* useDashboardStore.dashboards created by createDashboard
  nThoughts,       \* history: thought frames delivered so far
  aborted,         \* history: handleStop ran while the exchange was pending
  firstTerm,       \* history: first response/done/error frame of the exchange
  cancelled,       \* history: canceller ran, no explicit connect since
  healthyCall,     \* history: the last connectThoughtStream call of a page
                   \* returned through the OPEN check, its canceller has not run
  debounced,       \* history: a reconnect was asked for while a timeout was
                   \* pending, and none was scheduled
  history,         \* useChatStore.history
  stored,          \* localStorage: chat-history
  clock,           \* Date.now(), in milliseconds
  saveTimers,      \* pending setTimeout(saveCurrentToHistory, 100) timeouts
  nextSid,         \* number of session ids generated
  nMsgs,           \* history: messages added through the store so far
  lastSaved,       \* history: the last store operation was an archive of the
                   \* current session with the current messages
  dropped,         \* history: channels ("ambient", "exchange") on which an
                   \* unparsable frame was received
  attempts         \* history: parity of the connection attempts made and the
                   \* caller of the last one ("page", "timer")

vars ==
  << thoughtSocket, chatSocket, reconnectTimer, ambRs, ambNext, chatRs, nextEx,
     origin, reqSession, reqContext, responseData, promise, sent, thoughts,
     isProcessing,
     messages, isLoading, sessionId, abortRef, barLoading, panel,
     dashboard, persisted, dashboards, nThoughts, aborted, firstTerm, cancelled,
     timers, healthyCall, debounced, dropped, attempts,
     history, stored, clock, saveTimers, nextSid, nMsgs, lastSaved, lastOp,
     watched >>

\* The handlers are written as functions from state to state over a record
\* of the variables; `jobs` is the microtask queue, empty between actions.
Cur ==
  [ thoughtSocket |-> thoughtSocket, chatSocket |-> chatSocket,
    reconnectTimer |-> reconnectTimer, ambRs |-> ambRs, ambNext |-> ambNext,
    chatRs |-> chatRs, nextEx |-> nextEx, origin |-> origin,
    reqSession |-> reqSession, reqContext |-> reqContext,
    responseData |-> responseData,
    promise |-> promise, sent |-> sent, thoughts |-> thoughts,
    isProcessing |-> isProcessing, messages |-> messages,
    isLoading |-> isLoading, sessionId |-> sessionId, abortRef |-> abortRef,
    barLoading |-> barLoading, panel |-> panel,
    dashboard |-> dashboard, persisted |-> persisted,
    dashboards |-> dashboards, nThoughts |-> nThoughts, aborted |-> aborted,
    firstTerm |-> firstTerm, cancelled |-> cancelled, timers |-> timers,
    healthyCall |-> healthyCall, debounced |-> debounced, dropped |-> dropped,
    attempts |-> attempts, history |-> history, stored |-> stored,
    clock |-> clock, saveTimers |-> saveTimers, nextSid |-> nextSid,
    nMsgs |-> nMsgs, lastSaved |-> lastSaved, lastOp |-> lastOp,
    watched |-> watched, jobs |-> <<>> ]

Commit(S) ==
  /\ thoughtSocket' = S.thoughtSocket
  /\ chatSocket' = S.chatSocket
  /\ reconnectTimer' = S.reconnectTimer
  /\ ambRs' = S.ambRs
  /\ ambNext' = S.ambNext
  /\ chatRs' = S.chatRs
  /\ nextEx' = S.nextEx
  /\ origin' = S.origin
  /\ reqSession' = S.reqSession
  /\ reqContext' = S.reqContext
  /\ responseData' = S.responseData
  /\ promise' = S.promise
  /\ sent' = S.sent
  /\ thoughts' = S.thoughts
  /\ isProcessing' = S.isProcessing
  /\ messages' = S.messages
  /\ isLoading' = S.isLoading
  /\ sessionId' = S.sessionId
  /\ abortRef' = S.abortRef
  /\ barLoading' = S.barLoading
  /\ panel' = S.panel
  /\ dashboard' = S.dashboard
  /\ persisted' = S.persisted
  /\ dashboards' = S.dashboards
  /\ nThoughts' = S.nThoughts
  /\ aborted' = S.aborted
  /\ firstTerm' = S.firstTerm
  /\ cancelled' = S.cancelled
  /\ timers' = S.timers
  /\ healthyCall' = S.healthyCall
  /\ debounced' = S.debounced
  /\ dropped' = S.dropped
  /\ attempts' = S.attempts
  /\ history' = S.history
  /\ stored' = S.stored
  /\ clock' = S.clock
  /\ saveTimers' = S.saveTimers
  /\ nextSid' = S.nextSid
  /\ nMsgs' = S.nMsgs
  /\ lastSaved' = S.lastSaved
  /\ lastOp' = S.lastOp
  /\ watched' = S.watched

InitButStorage ==
  /\ thoughtSocket = 0
  /\ chatSocket = 0
  /\ reconnectTimer = 0
  /\ timers = {}
  /\ ambRs = [a \in AmbIds |-> "UNUSED"]
  /\ ambNext = 0
  /\ chatRs = [e \in ExIds |-> "UNUSED"]
  /\ nextEx = 0
  /\ origin = [e \in ExIds |-> "none"]
  /\ reqSession = [e \in ExIds |-> ""]
  /\ reqContext = [e \in ExIds |-> ""]
  /\ responseData = [e \in ExIds |-> None]
  /\ promise = [e \in ExIds |-> Pending]
  /\ sent = [e \in ExIds |-> {}]
  /\ thoughts = <<>>
  /\ isProcessing = FALSE
  /\ messages = <<>>
  /\ isLoading = FALSE
  /\ sessionId = SessionName(1)
  /\ abortRef = FALSE
  /\ barLoading = FALSE
  /\ panel = <<>>
  /\ dashboard = None
  /\ dashboards = <<>>
  /\ nThoughts = 0
  /\ aborted = [e \in ExIds |-> FALSE]
  /\ firstTerm = [e \in ExIds |-> None]
  /\ cancelled = FALSE
  /\ healthyCall = FALSE
  /\ debounced = FALSE
  /\ dropped = {}
  /\ attempts = [n |-> 0, by |-> "none"]
  /\ history = <<>>
  /\ stored = <<>>
  /\ clock = 0
  /\ saveTimers = 0
  /\ nextSid = 1
  /\ nMsgs = 0
  /\ lastSaved = FALSE
  /\ lastOp = [op |-> "none", active |-> FALSE, left |-> None]
  /\ watched = [sid |-> "", content |-> "", deleted |-> FALSE]

\* first visit: nothing is stored under the dashboard keys
Init ==
  /\ InitButStorage
  /\ persisted = [d \in DashIds |-> None]

\* a later visit: the dashboard keys hold what earlier page lives, or
\* anything else that writes the storage of the origin, left there
InitStorage ==
  /\ InitButStorage
  /\ persisted \in [DashIds -> FoundInStorage]

\* ------------------------------------------------------ WebSocket platform
\* readyState of a socket, refined by the events still owed to it:
\*   CONNECTING, OPEN as in the platform;
\*   CLOSING  close() was called on an open socket, close event pending;
\*   FAILING  close() was called while connecting: the platform fails the
\*            connection, an error event then a close event are pending;
\*   ERRORED  the error event was dispatched, close event pending;
\*   CLOSED   the close event was dispatched.
\* Message events are dispatched only while readyState is OPEN.
SocketClose(rs) ==
  IF rs = "CONNECTING" THEN "FAILING"
  ELSE IF rs = "OPEN" THEN "CLOSING"
  ELSE rs

CanError(rs) == rs \in {"CONNECTING", "OPEN", "CLOSING", "FAILING"}
CanCloseEvent(rs) == rs \in {"OPEN", "CLOSING", "ERRORED"}

\* --------------------------------------------------------- useThoughtStore
AddThoughtPrepended(S, t) == [S EXCEPT !.thoughts = <<t>> \o @]

AddThought(S, t) == [S EXCEPT !.thoughts = Append(@, t)]
ClearThoughts(S) == [S EXCEPT !.thoughts = <<>>]
SetProcessing(S, b) == [S EXCEPT !.isProcessing = b]

\* ------------------------------------------------------------ useChatStore
AddMessageNoAutosave(S, m) == [S EXCEPT !.messages = Append(@, m)]

\* addMessage: an assistant message also schedules an archive after 100 ms
AddMessage(S, m) ==
  [S EXCEPT !.messages = Append(@, m),
            !.saveTimers = IF m.role = "assistant" THEN @ + 1 ELSE @]

SetLoading(S, b) == [S EXCEPT !.isLoading = b]

\* convos.slice(0, 30)
Slice(convos, n) == SubSeq(convos, 1, IF Len(convos) < n THEN Len(convos) ELSE n)

SaveHistoryUncapped(S, convos) == [S EXCEPT !.stored = convos]

\* saveHistory: localStorage.setItem("chat-history", ...)
SaveHistory(S, convos) == [S EXCEPT !.stored = Slice(convos, HistoryCap)]

\* msgs.find((m) => m.role === "user"); the contents of the model are
\* shorter than the 50 characters a title keeps
TitleFromMessages(msgs) ==
  LET users == {i \in 1..Len(msgs) : msgs[i].role = "user"}
  IN IF users = {} THEN "New conversation"
     ELSE msgs[CHOOSE i \in users : \A j \in users : i <= j].content

\* history.findIndex((c) => c.id === id), 0 when there is none
FindIndex(convos, id) ==
  LET found == {i \in 1..Len(convos) : convos[i].id = id}
  IN IF found = {} THEN 0 ELSE CHOOSE i \in found : \A j \in found : i <= j

\* updated.sort((a, b) => time(b.updatedAt) - time(a.updatedAt)): newest
\* first; Array.prototype.sort is stable, records of equal time keep their order
RECURSIVE InsertByRecency(_, _)
InsertByRecency(sorted, c) ==
  IF sorted = <<>> THEN <<c>>
  ELSE IF Head(sorted).updatedAt >= c.updatedAt
  THEN <<Head(sorted)>> \o InsertByRecency(Tail(sorted), c)
  ELSE <<c>> \o sorted

RECURSIVE SortByRecency(_)
SortByRecency(convos) ==
  IF convos = <<>> THEN <<>>
  ELSE InsertByRecency(SortByRecency(SubSeq(convos, 1, Len(convos) - 1)),
                       convos[Len(convos)])

\* saveCurrentToHistory: upsert of the record of the current session, stamped
\* with the current time
SaveCurrentToHistory(S) ==
  IF Len(S.messages) = 0 THEN S
  ELSE LET existing == FindIndex(S.history, S.sessionId)
           convo == [id |-> S.sessionId, title |-> TitleFromMessages(S.messages),
                     messages |-> S.messages, updatedAt |-> S.clock]
           updated == SortByRecency(
                        IF existing > 0 THEN [S.history EXCEPT ![existing] = convo]
                        ELSE <<convo>> \o S.history)
       IN [SaveHistory(S, updated) EXCEPT !.history = updated]

\* loadConversation: `history` is read before the current log is archived
LoadConversation(S, id) ==
  LET S1 == IF Len(S.messages) > 0 THEN SaveCurrentToHistory(S) ELSE S
      i == FindIndex(S.history, id)
  IN IF i > 0
     THEN [S1 EXCEPT !.messages = S.history[i].messages, !.sessionId = S.history[i].id]
     ELSE S1

\* deleteConversation
DeleteConversation(S, id) ==
  LET updated == SelectSeq(S.history, LAMBDA c : c.id # id)
  IN [SaveHistory(S, updated) EXCEPT !.history = updated]

StartNewConversationNoFlush(S) ==
  [S EXCEPT !.messages = <<>>, !.sessionId = SessionName(S.nextSid + 1),
            !.nextSid = @ + 1]

\* startNewConversation; generateId (time stamp and random suffix) is taken to
\* return an id it never returned before
StartNewConversation(S) ==
  LET S1 == IF Len(S.messages) > 0 THEN SaveCurrentToHistory(S) ELSE S
  IN [S1 EXCEPT !.messages = <<>>, !.sessionId = SessionName(S.nextSid + 1),
                !.nextSid = @ + 1]


\* ------------------------------------------------- useActiveDashboardStore
\* JSON.stringify(charts): a hole and undefined are written as null
Stringify(charts) ==
  JsonOf([i \in 1..Len(charts) |->
            IF charts[i] \in {Hole, Undefined} THEN Null ELSE charts[i]])

\* [...charts]: the iterator of an array yields undefined for a hole
Spread(charts) ==
  [i \in 1..Len(charts) |-> IF charts[i] = Hole THEN Undefined ELSE charts[i]]

PersistDashboard(S, d) == [S EXCEPT !.persisted[d.id] = Some(Stringify(d.charts))]

\* localStorage.getItem, then JSON.parse in a try block
LoadPersistedCharts(S, id) ==
  LET saved == S.persisted[id]
  IN IF ~IsSome(saved) THEN None
     ELSE IF saved[1].parses THEN Some(saved[1].value)
     ELSE None

SetDashboardNoOverride(S, d) == [S EXCEPT !.dashboard = d]

SetDashboard(S, d) ==
  IF IsSome(d)
  THEN LET saved == LoadPersistedCharts(S, d[1].id)
       IN IF IsSome(saved) /\ Len(saved[1]) > 0
          THEN [S EXCEPT !.dashboard = Some([d[1] EXCEPT !.charts = saved[1]])]
          ELSE [S EXCEPT !.dashboard = d]
  ELSE [S EXCEPT !.dashboard = None]

UpdateCharts(S, charts) ==
  IF ~IsSome(S.dashboard) THEN S
  ELSE LET updated == [S.dashboard[1] EXCEPT !.charts = charts]
       IN [PersistDashboard(S, updated) EXCEPT !.dashboard = Some(updated)]

AddChartUnguarded(S, chart) ==
  LET d == IF IsSome(S.dashboard) THEN S.dashboard[1]
           ELSE [id |-> "d1", title |-> SourceTitle("d1"), charts |-> <<>>]
      updated == [d EXCEPT !.charts = Append(@, chart)]
  IN [PersistDashboard(S, updated) EXCEPT !.dashboard = Some(updated)]

AddChart(S, chart) ==
  IF ~IsSome(S.dashboard) THEN S
  ELSE LET updated == [S.dashboard[1] EXCEPT !.charts = Append(Spread(@), chart)]
       IN [PersistDashboard(S, updated) EXCEPT !.dashboard = Some(updated)]

\* charts.filter((_, i) => i !== index), index counted from 0; filter does
\* not visit holes
Filter(charts, index) ==
  LET keep == {i \in 1..Len(charts) : i - 1 # index /\ charts[i] # Hole}
      Nth(k) == CHOOSE i \in keep : Cardinality({j \in keep : j <= i}) = k
  IN [k \in 1..Cardinality(keep) |-> charts[Nth(k)]]

RemoveChartFirst(S, index) ==
  IF ~IsSome(S.dashboard) THEN S
  ELSE LET updated == [S.dashboard[1] EXCEPT !.charts = Filter(@, 0)]
       IN [PersistDashboard(S, updated) EXCEPT !.dashboard = Some(updated)]

RemoveChart(S, index) ==
  IF ~IsSome(S.dashboard) THEN S
  ELSE LET updated == [S.dashboard[1] EXCEPT !.charts = Filter(@, index)]
       IN [PersistDashboard(S, updated) EXCEPT !.dashboard = Some(updated)]

\* const charts = [...list]; charts[index] = chart: an index at or past the
\* length grows the array and leaves holes below it; a negative index names a
\* property, not an element
AssignAt(list, index, chart) ==
  IF index < 0 THEN list
  ELSE [i \in 1..(IF index + 1 > Len(list) THEN index + 1 ELSE Len(list)) |->
          IF i = index + 1 THEN chart
          ELSE IF i <= Len(list) THEN list[i]
          ELSE Hole]

ReplaceChart(S, index, chart) ==
  IF ~IsSome(S.dashboard) THEN S
  ELSE LET updated == [S.dashboard[1] EXCEPT !.charts = AssignAt(Spread(@), index, chart)]
       IN [PersistDashboard(S, updated) EXCEPT !.dashboard = Some(updated)]

\* charts.forEach((c) => addChart(c))
RECURSIVE AddCharts(_, _)
AddCharts(S, charts) ==
  IF charts = <<>> THEN S ELSE AddCharts(AddChart(S, Head(charts)), Tail(charts))

\* useDashboardStore.createDashboard(title, description, charts)
CreateDashboard(S, e, charts) ==
  [S EXCEPT !.dashboards = Append(@, [ex |-> e, charts |-> charts])]

\* ------------------------------------------------------------------ Promise
\* resolve / reject of `new Promise((resolve, reject) => ...)`: only the
\* first call settles the promise and queues the awaiting continuation.
ResolveIgnored(S, e, v) == S

Resolve(S, e, v) ==
  IF S.promise[e].k = "pending"
  THEN [S EXCEPT !.promise[e] = Fulfilled(v), !.jobs = Append(@, e)]
  ELSE S

RejectUnguarded(S, e, m) ==
  [S EXCEPT !.promise[e] = Rejected(m), !.jobs = Append(@, e)]

Reject(S, e, m) ==
  IF S.promise[e].k = "pending"
  THEN [S EXCEPT !.promise[e] = Rejected(m), !.jobs = Append(@, e)]
  ELSE S

\* an optional property of a response object
Field(r, f) == IF f \in DOMAIN r THEN r[f] ELSE None

\* --------------------------------------------- continuations of the callers
\* chat page handleSend, from `const response = await sendChatMessage(...)`
\* to the end of the finally block
ChatContinuation(S, e) ==
  LET p == S.promise[e] IN
  IF S.abortRef THEN S
  ELSE IF p.k = "ok"
  THEN LET r == p.v
           charts == IF Len(r.charts) > 0 THEN Some(r.charts) ELSE None
           S1 == IF Field(r, "intent") = Some("dashboard") /\ IsSome(charts)
                 THEN CreateDashboard(S, e, charts[1]) ELSE S
           S2 == AddMessage(S1, [role |-> "assistant", ex |-> e, kind |-> "reply",
                                 content |-> r.reply, charts |-> charts])
       IN SetProcessing(SetLoading(S2, FALSE), FALSE)
  ELSE LET S1 == AddMessage(S, [role |-> "assistant", ex |-> e, kind |-> "fallback",
                                content |-> "snag", charts |-> None])
       IN SetProcessing(SetLoading(S1, FALSE), FALSE)

\* FloatingChatBar handleSend, from the await to the end of the finally block
BarContinuation(S, e) ==
  LET p == S.promise[e] IN
  LET S2 ==
        IF p.k = "ok"
        THEN LET r == p.v
                 du == Field(r, "dashboard_update")
                 S1 == IF IsSome(du)
                       THEN IF du[1].action = "replace_all" /\ IsSome(du[1].charts)
                            THEN UpdateCharts(S, du[1].charts[1])
                            ELSE IF du[1].action = "add" /\ IsSome(du[1].charts)
                            THEN AddCharts(S, du[1].charts[1])
                            ELSE S
                       ELSE IF Len(r.charts) > 0 THEN AddCharts(S, r.charts)
                       ELSE S
             IN [S1 EXCEPT !.panel = Append(@, [role |-> "assistant", ex |-> e,
                     kind |-> "reply",
                     content |-> IF r.reply = "" THEN "Done" ELSE r.reply])]
        ELSE [S EXCEPT !.panel = Append(@, [role |-> "assistant", ex |-> e,
                     kind |-> "fallback", content |-> "wrong"])]
  IN SetProcessing([S2 EXCEPT !.barLoading = FALSE], FALSE)

Continuation(S, e) ==
  IF S.origin[e] = "chat" THEN ChatContinuation(S, e) ELSE BarContinuation(S, e)

\* microtask checkpoint after a handler returns
RECURSIVE RunJobs(_)
RunJobs(S) ==
  IF S.jobs = <<>> THEN S
  ELSE RunJobs(Continuation([S EXCEPT !.jobs = Tail(@)], Head(S.jobs)))

\* ------------------------------------------------------- sendChatMessage
\* chatSocket?.close()
CloseChatSocket(S) ==
  IF S.chatSocket = 0 THEN S
  ELSE [S EXCEPT !.chatRs[S.chatSocket] = SocketClose(@)]

\* the Promise executor: new WebSocket(url) and the handler registrations;
\* `throws` is the constructor raising (reject(err) in the catch block)
SendChatMessage(S, e, throws) ==
  IF throws
  THEN Reject([S EXCEPT !.chatRs[e] = "NOSOCKET"], e, CtorMsg)
  ELSE [S EXCEPT !.chatSocket = e, !.chatRs[e] = "CONNECTING"]

\* chatSocket.onopen of exchange e: send() on a connecting socket throws,
\* on a closing or closed socket it is discarded
OnChatOpen(S, e) ==
  LET s == S.chatSocket IN
  IF s # 0 /\ S.chatRs[s] = "OPEN"
  THEN [S EXCEPT !.sent[s] = @ \cup {e}]
  ELSE S

\* history: the first response/done/error frame received by exchange e
NoteTerminal(S, e, f) ==
  IF f.type \in {"response", "done", "error"} /\ ~IsSome(S.firstTerm[e])
  THEN [S EXCEPT !.firstTerm[e] = Some(f)]
  ELSE S

\* chatSocket.onmessage of exchange e
OnChatMessage(S, e, f) ==
  IF f.type = "garbage" THEN S
  ELSE
  LET S1 == IF f.type = "thought"
            THEN LET A == AddThought([S EXCEPT !.nThoughts = @ + 1],
                            [src |-> e, n |-> S.nThoughts + 1, type |-> f.thought_type])
                 IN IF f.thought_type \in {"thinking", "executing_sql"}
                    THEN SetProcessing(A, TRUE) ELSE A
            ELSE S
      S2 == IF f.type = "response"
            THEN LET rd == [reply |-> f.reply,
                            charts |-> IF IsSome(f.charts) THEN f.charts[1] ELSE <<>>,
                            session_id |-> IF IsSome(f.session_id) THEN f.session_id[1]
                                           ELSE S.reqSession[e]]
                 IN SetLoading(SetProcessing(
                      [S1 EXCEPT !.responseData[e] = Some(rd)], FALSE), FALSE)
            ELSE S1
      S3 == IF f.type \in {"done", "response"}
            THEN LET C == CloseChatSocket(S2)
                 IN IF IsSome(C.responseData[e])
                    THEN Resolve(C, e, C.responseData[e][1]) ELSE C
            ELSE S2
      S4 == IF f.type = "error"
            THEN CloseChatSocket(
                   Reject(SetLoading(SetProcessing(S3, FALSE), FALSE), e,
                          IF f.content = "" THEN "Chat error" ELSE f.content))
            ELSE S3
  IN NoteTerminal(S4, e, f)

\* chatSocket.onerror of exchange e
OnChatError(S, e) ==
  Reject(SetLoading(SetProcessing(S, FALSE), FALSE), e, TransportMsg)

\* chatSocket.onclose of exchange e
OnChatClose(S, e) ==
  IF IsSome(S.responseData[e]) THEN Resolve(S, e, S.responseData[e][1]) ELSE S


\* --------------------------------------------------- connectThoughtStream
\* thoughtSocket?.close()
CloseThoughtSocket(S) ==
  IF S.thoughtSocket = 0 THEN S
  ELSE [S EXCEPT !.ambRs[S.thoughtSocket] = SocketClose(@)]

\* setTimeout / clearTimeout of the platform: a new handle names a timeout
\* that is pending until it fires or is cleared; clearing a handle that is
\* not pending does nothing
FreeTimer(S) == CHOOSE t \in TimerIds \ S.timers : \A u \in TimerIds \ S.timers : t <= u

SetReconnectTimeout(S) ==
  LET t == FreeTimer(S)
  IN [S EXCEPT !.timers = @ \cup {t}, !.reconnectTimer = t]

\* if (reconnectTimer) { clearTimeout(reconnectTimer); reconnectTimer = null }
ClearReconnectTimer(S) ==
  IF S.reconnectTimer # 0
  THEN [S EXCEPT !.timers = @ \ {S.reconnectTimer}, !.reconnectTimer = 0]
  ELSE S

ScheduleReconnectUnguarded(S) == SetReconnectTimeout(S)

\* if (!reconnectTimer) reconnectTimer = setTimeout(..., RECONNECT_DELAY)
ScheduleReconnect(S) ==
  IF S.reconnectTimer = 0 THEN SetReconnectTimeout(S)
  ELSE [S EXCEPT !.debounced = TRUE]

HasOpenSocket(S) == S.thoughtSocket # 0 /\ S.ambRs[S.thoughtSocket] = "OPEN"

ConnectThoughtStreamNoCheck(S, throws) ==
  IF throws THEN ScheduleReconnect(S)
  ELSE [S EXCEPT !.thoughtSocket = S.ambNext + 1,
                 !.ambRs[S.ambNext + 1] = "CONNECTING",
                 !.ambNext = @ + 1]

\* `throws` is new WebSocket(url) raising (the catch block)
ConnectThoughtStream(S, throws) ==
  IF HasOpenSocket(S) THEN S
  ELSE IF throws THEN ScheduleReconnect(S)
  ELSE [S EXCEPT !.thoughtSocket = S.ambNext + 1,
                 !.ambRs[S.ambNext + 1] = "CONNECTING",
                 !.ambNext = @ + 1]

DisconnectThoughtStream(S) ==
  LET S1 == ClearReconnectTimer(S)
  IN [CloseThoughtSocket(S1) EXCEPT !.thoughtSocket = 0]

\* thoughtSocket.onopen
OnThoughtOpen(S) == ClearReconnectTimer(S)

OnThoughtMessageNoCatch(S, f) ==
  LET A == AddThought([S EXCEPT !.nThoughts = @ + 1],
             [src |-> 0, n |-> S.nThoughts + 1, type |-> f.type])
  IN IF f.type \in {"found_insight", "generating_chart", "error"}
     THEN SetProcessing(A, FALSE)
     ELSE IF f.type \in {"thinking", "executing_sql"}
     THEN SetProcessing(A, TRUE)
     ELSE A

\* thoughtSocket.onmessage
OnThoughtMessage(S, f) ==
  IF f.type = "garbage" THEN S
  ELSE LET A == AddThought([S EXCEPT !.nThoughts = @ + 1],
                  [src |-> 0, n |-> S.nThoughts + 1, type |-> f.type])
       IN IF f.type \in {"found_insight", "generating_chart", "error"}
          THEN SetProcessing(A, FALSE)
          ELSE IF f.type \in {"thinking", "executing_sql"}
          THEN SetProcessing(A, TRUE)
          ELSE A

OnThoughtCloseNoReconnect(S) == [S EXCEPT !.thoughtSocket = 0]

\* thoughtSocket.onclose
OnThoughtClose(S) == ScheduleReconnect([S EXCEPT !.thoughtSocket = 0])

\* thoughtSocket.onerror
OnThoughtError(S) == CloseThoughtSocket(S)

\* the constructor can be reached only while the model has a socket id left
CanConnect(throws) ==
  HasOpenSocket(Cur) \/ throws \/ ambNext < MaxAmb

\* the platform has a timeout handle left
TimerLeft(S) == Cardinality(S.timers) < MaxTimers

\* history: an unparsable frame arrived on a channel
NoteDropped(S, f, channel) ==
  IF f.type = "garbage" THEN [S EXCEPT !.dropped = @ \cup {channel}] ELSE S

\* history: a call of connectThoughtStream that got past the OPEN check
NoteAttempt(S, from, by) ==
  IF HasOpenSocket(from) THEN S
  ELSE [S EXCEPT !.attempts = [n |-> 1 - @.n, by |-> by]]

\* history: the assistant message being added is picked
NoteWatched(S) ==
  [sid |-> S.sessionId, content |-> "m" \o ToString(S.nMsgs + 1),
   deleted |-> FALSE]

\* history: an operation of the active dashboard store ran
NoteOp(S, op) ==
  [S EXCEPT !.lastOp = [op |-> op, active |-> IsSome(dashboard),
                        left |-> IF op = "setDashboard(null)" THEN dashboard
                                 ELSE None]]

\* ---------------------------------------------------------------- actions
\* a page mounts: useEffect(() => { const disconnect = connectThoughtStream() })
Connect(throws) ==
  /\ CanConnect(throws)
  /\ TimerLeft(Cur)
  /\ Commit(NoteAttempt([ConnectThoughtStream(Cur, throws) EXCEPT
                          !.cancelled = FALSE,
                          !.healthyCall = HasOpenSocket(Cur)], Cur, "page"))

\* a page unmounts: the canceller returned by connectThoughtStream runs
Disconnect ==
  /\ cancelled' = TRUE
  /\ Commit([DisconnectThoughtStream(Cur) EXCEPT !.cancelled = TRUE,
                                              !.healthyCall = FALSE])

\* the reconnect timeout t fires: () => { reconnectTimer = null;
\* connectThoughtStream() }
ReconnectFire(t, throws) ==
  /\ t \in timers
  /\ LET S == [Cur EXCEPT !.timers = @ \ {t}, !.reconnectTimer = 0]
     IN /\ HasOpenSocket(S) \/ throws \/ ambNext < MaxAmb
        /\ Commit(NoteAttempt(ConnectThoughtStream(S, throws), S, "timer"))

AmbOpen(a) ==
  /\ ambRs[a] = "CONNECTING"
  /\ Commit(OnThoughtOpen([Cur EXCEPT !.ambRs[a] = "OPEN"]))

AmbMessage(a, f) ==
  /\ ambRs[a] = "OPEN"
  /\ f.type # "garbage" => nThoughts < MaxThoughts
  /\ Commit(NoteDropped(OnThoughtMessage(Cur, f), f, "ambient"))

AmbError(a) ==
  /\ CanError(ambRs[a])
  /\ Commit(OnThoughtError([Cur EXCEPT !.ambRs[a] = "ERRORED"]))

AmbCloseEvent(a) ==
  /\ CanCloseEvent(ambRs[a])
  /\ TimerLeft(Cur)
  /\ Commit(OnThoughtClose([Cur EXCEPT !.ambRs[a] = "CLOSED"]))

\* the dashboard viewer mounts (or its id changes): it activates the
\* dashboard from its source definition
ActivateDashboard(d) ==
  /\ ~IsSome(dashboard)
  /\ Commit(NoteOp(SetDashboard(Cur, Some([id |-> d, title |-> SourceTitle(d),
                                            charts |-> SourceCharts(d)])),
                   "setDashboard"))

\* the dashboard viewer unmounts: setActiveDashboard(null)
DeactivateDashboard ==
  /\ IsSome(dashboard)
  /\ Commit(NoteOp(SetDashboard(Cur, None), "setDashboard(null)"))

\* the chart operations of useActiveDashboardStore, called with or without
\* an active dashboard
UpdateChartsOp(charts) ==
  /\ Commit(NoteOp(UpdateCharts(Cur, charts), "updateCharts"))
  /\ lastOp'.op = "updateCharts"

AddChartOp(chart) ==
  /\ IsSome(dashboard) => Len(dashboard[1].charts) < MaxCharts
  /\ Commit(NoteOp(AddChart(Cur, chart), "addChart"))

\* the remove button of chart index of the dashboard viewer, or another caller
RemoveChartOp(index) ==
  /\ Commit(NoteOp(RemoveChart(Cur, index), "removeChart"))
  /\ lastOp'.op = "removeChart"

ReplaceChartOp(index, chart) ==
  /\ Commit(NoteOp(ReplaceChart(Cur, index, chart), "replaceChart"))
  /\ lastOp'.op = "replaceChart"

\* a caller adds a message to the conversation (useChatStore.addMessage)
StoreAddMessage(role) ==
  /\ nMsgs < MaxMsgs
  /\ Commit(AddMessage([Cur EXCEPT !.nMsgs = @ + 1, !.lastSaved = FALSE],
                       [role |-> role, ex |-> 0, kind |-> role,
                        content |-> "m" \o ToString(nMsgs + 1), charts |-> None]))

\* the same with an assistant message, which is picked to be followed
StoreAddWatched ==
  /\ nMsgs < MaxMsgs
  /\ watched.sid = ""
  /\ Commit(AddMessage([Cur EXCEPT !.nMsgs = @ + 1, !.lastSaved = FALSE,
                                   !.watched = NoteWatched(Cur)],
                       [role |-> "assistant", ex |-> 0, kind |-> "assistant",
                        content |-> "m" \o ToString(nMsgs + 1), charts |-> None]))

\* a timeout set by addMessage fires: get().saveCurrentToHistory()
AutosaveFire ==
  /\ saveTimers > 0
  /\ Commit([SaveCurrentToHistory([Cur EXCEPT !.saveTimers = @ - 1]) EXCEPT
               !.lastSaved = Len(messages) > 0])

\* a conversation of the history list is opened:
\* onClick={() => { loadConversation(convo.id); clearThoughts(); }}
LoadConversationOp(id) ==
  /\ lastSaved' = FALSE
  /\ Commit(ClearThoughts([LoadConversation(Cur, id) EXCEPT !.lastSaved = FALSE]))

\* a conversation of the history list is deleted
DeleteConversationOp(id) ==
  /\ lastSaved' = FALSE
  /\ Commit([DeleteConversation(Cur, id) EXCEPT
               !.lastSaved = FALSE,
               !.watched.deleted = @ \/ watched.sid = id])

\* "new conversation": onClick={() => { startNewConversation(); clearThoughts(); }}
StartNewConversationOp ==
  /\ nextSid < MaxSessions
  /\ Commit(ClearThoughts([StartNewConversation(Cur) EXCEPT !.lastSaved = FALSE]))

\* a millisecond passes
Tick ==
  /\ clock < MaxClock
  /\ clock' = clock + 1
  /\ Commit([Cur EXCEPT !.clock = @ + 1])

\* bookkeeping of a dispatch: the exchange id and the captured arguments
Dispatch(S, e, from) ==
  [S EXCEPT !.nextEx = e, !.origin[e] = from, !.reqSession[e] = S.sessionId]

\* chat page handleSend up to the await
HandleSend(throws) ==
  /\ ~isLoading
  /\ nextEx < MaxEx
  /\ LET e == nextEx + 1
         S1 == [Dispatch(Cur, e, "chat") EXCEPT !.abortRef = FALSE]
         S2 == AddMessage(S1, [role |-> "user", ex |-> e, kind |-> "user",
                               content |-> "q", charts |-> None])
         S3 == SetProcessing(ClearThoughts(SetLoading(S2, TRUE)), TRUE)
     IN Commit(RunJobs(SendChatMessage(S3, e, throws)))

\* chat page handleStop; the stop button is rendered only while isLoading
HandleStop ==
  /\ isLoading
  /\ LET S1 == [Cur EXCEPT !.abortRef = TRUE,
                  !.aborted = [e \in ExIds |->
                     @[e] \/ (origin[e] = "chat" /\ promise[e].k = "pending")]]
     IN Commit(SetProcessing(SetLoading(S1, FALSE), FALSE))

\* FloatingChatBar handleSend up to the await, on a dashboard screen
\* (onDashboard)
BarSend(throws) ==
  /\ IsSome(dashboard)
  /\ ~barLoading
  /\ nextEx < MaxEx
  /\ LET e == nextEx + 1
         S1 == [Dispatch(Cur, e, "bar") EXCEPT
                  !.panel = Append(@, [role |-> "user", ex |-> e, kind |-> "user",
                                       content |-> "q"]),
                  !.barLoading = TRUE,
                  !.reqContext[e] = dashboard[1].id]
         S2 == SetProcessing(ClearThoughts(S1), TRUE)
     IN Commit(RunJobs(SendChatMessage(S2, e, throws)))

ChatOpen(e) ==
  /\ chatRs[e] = "CONNECTING"
  /\ Commit(RunJobs(OnChatOpen([Cur EXCEPT !.chatRs[e] = "OPEN"], e)))

\* The backend sends thought frames of an exchange only before its response
\* frame (the final answer is the last payload frame of the wire protocol).
ServerMaySend(e, f) ==
  f.type = "thought" => (nThoughts < MaxThoughts /\ ~IsSome(responseData[e]))

ChatMessage(e, f) ==
  /\ chatRs[e] = "OPEN"
  /\ ServerMaySend(e, f)
  /\ Commit(NoteDropped(RunJobs(OnChatMessage(Cur, e, f)), f, "exchange"))

ChatError(e) ==
  /\ CanError(chatRs[e])
  /\ Commit(RunJobs(OnChatError([Cur EXCEPT !.chatRs[e] = "ERRORED"], e)))

ChatCloseEvent(e) ==
  /\ CanCloseEvent(chatRs[e])
  /\ Commit(RunJobs(OnChatClose([Cur EXCEPT !.chatRs[e] = "CLOSED"], e)))

Next ==
  \/ \E throws \in BOOLEAN : Connect(throws)
  \/ Disconnect
  \/ \E t \in TimerIds, throws \in BOOLEAN : ReconnectFire(t, throws)
  \/ \E a \in AmbIds : AmbOpen(a)
  \/ \E a \in AmbIds, f \in AmbientFrames : AmbMessage(a, f)
  \/ \E a \in AmbIds : AmbError(a)
  \/ \E a \in AmbIds : AmbCloseEvent(a)
  \/ \E d \in DashIds : ActivateDashboard(d)
  \/ DeactivateDashboard
  \/ \E throws \in BOOLEAN : HandleSend(throws)
  \/ HandleStop
  \/ \E throws \in BOOLEAN : BarSend(throws)
  \/ \E e \in ExIds : ChatOpen(e)
  \/ \E e \in ExIds, f \in ChatFrames : ChatMessage(e, f)
  \/ \E e \in ExIds : ChatError(e)
  \/ \E e \in ExIds : ChatCloseEvent(e)
  \/ \E role \in {"user", "assistant"} : StoreAddMessage(role)
  \/ StoreAddWatched
  \/ AutosaveFire
  \/ \E id \in SessionIds : LoadConversationOp(id)
  \/ \E id \in SessionIds : DeleteConversationOp(id)
  \/ StartNewConversationOp
  \/ Tick
  \/ \E charts \in NewChartLists : UpdateChartsOp(charts)
  \/ \E chart \in NewCharts : AddChartOp(chart)
  \/ \E index \in ChartIndexes : RemoveChartOp(index)
  \/ \E index \in ChartIndexes, chart \in NewCharts : ReplaceChartOp(index, chart)

Spec == Init /\ [][Next]_vars


\* the chat page and its exchanges
NextChat ==
  \/ \E throws \in BOOLEAN : HandleSend(throws)
  \/ HandleStop
  \/ \E e \in ExIds : ChatOpen(e)
  \/ \E e \in ExIds, f \in ParsedChatFrames : ChatMessage(e, f)
  \/ \E e \in ExIds : ChatError(e)
  \/ \E e \in ExIds : ChatCloseEvent(e)

SpecChat == Init /\ [][NextChat]_vars

\* the floating chat bar on a dashboard screen and its exchanges
NextBar ==
  \/ \E d \in DashIds : ActivateDashboard(d)
  \/ DeactivateDashboard
  \/ \E throws \in BOOLEAN : BarSend(throws)
  \/ \E e \in ExIds : ChatOpen(e)
  \/ \E e \in ExIds, f \in ParsedChatFrames : ChatMessage(e, f)
  \/ \E e \in ExIds : ChatError(e)
  \/ \E e \in ExIds : ChatCloseEvent(e)

SpecBar == Init /\ [][NextBar]_vars

\* the ambient connection alone
NextAmbient ==
  \/ \E throws \in BOOLEAN : Connect(throws)
  \/ Disconnect
  \/ \E t \in TimerIds, throws \in BOOLEAN : ReconnectFire(t, throws)
  \/ \E a \in AmbIds : AmbOpen(a)
  \/ \E a \in AmbIds, f \in ParsedAmbientFrames : AmbMessage(a, f)
  \/ \E a \in AmbIds : AmbError(a)
  \/ \E a \in AmbIds : AmbCloseEvent(a)

SpecAmbient == Init /\ [][NextAmbient]_vars

\* the life cycle of the ambient connection, without its frames; a pending
\* timeout fires once its delay has passed
NextReconnect ==
  \/ \E throws \in BOOLEAN : Connect(throws)
  \/ Disconnect
  \/ \E t \in TimerIds, throws \in BOOLEAN : ReconnectFire(t, throws)
  \/ \E a \in AmbIds : AmbOpen(a)
  \/ \E a \in AmbIds : AmbError(a)
  \/ \E a \in AmbIds : AmbCloseEvent(a)

SpecReconnect ==
  /\ Init
  /\ [][NextReconnect]_vars
  /\ WF_vars(\E t \in TimerIds, throws \in BOOLEAN : ReconnectFire(t, throws))


\* the frames of both channels, parsable or not, on sockets that stay up
NextFrames ==
  \/ \E throws \in BOOLEAN : Connect(throws)
  \/ \E a \in AmbIds : AmbOpen(a)
  \/ \E a \in AmbIds, f \in AmbientFrames : AmbMessage(a, f)
  \/ \E throws \in BOOLEAN : HandleSend(throws)
  \/ \E e \in ExIds : ChatOpen(e)
  \/ \E e \in ExIds, f \in ChatFrames : ChatMessage(e, f)

SpecFrames == Init /\ [][NextFrames]_vars

\* the conversation store and its history
NextHistory ==
  \/ \E role \in {"user", "assistant"} : StoreAddMessage(role)
  \/ AutosaveFire
  \/ \E id \in SessionIds : LoadConversationOp(id)
  \/ \E id \in SessionIds : DeleteConversationOp(id)
  \/ StartNewConversationOp
  \/ Tick

SpecHistory == Init /\ [][NextHistory]_vars

\* a step in which a timeout set by addMessage fires: AutosaveFire is the
\* only action that lowers saveTimers and it can be taken whenever
\* saveTimers > 0
AutosaveDue == saveTimers > 0 /\ saveTimers' = saveTimers - 1

\* the same where one assistant message is followed, and a timeout set by
\* addMessage fires once its 100 ms have passed
NextHistoryFair ==
  \/ NextHistory
  \/ StoreAddWatched

SpecHistoryFair ==
  /\ Init
  /\ [][NextHistoryFair]_vars
  /\ WF_saveTimers(AutosaveDue)

\* an item of the chat page's history sidebar is clicked; the sidebar lists
\* history.filter((c) => c.id !== sessionId)
HistoryItemClick(id) ==
  /\ id # sessionId
  /\ \E i \in 1..Len(history) : history[i].id = id
  /\ LoadConversationOp(id)

\* the frames that end an exchange of the chat page with a message for the
\* log: a final answer and an error
SessionFrames ==
  {f \in ResponseFrames : ~IsSome(f.charts)} \cup {f \in ErrorFrames : f.content = "boom"}

\* the chat page with its history sidebar: exchanges of handleSend next to
\* the sidebar's buttons, which stay enabled while an exchange is in flight
NextSession ==
  \/ \E throws \in BOOLEAN : HandleSend(throws)
  \/ HandleStop
  \/ \E e \in ExIds : ChatOpen(e)
  \/ \E e \in ExIds, f \in SessionFrames : ChatMessage(e, f)
  \/ \E e \in ExIds : ChatError(e)
  \/ \E e \in ExIds : ChatCloseEvent(e)
  \/ AutosaveFire
  \/ \E id \in SessionIds : HistoryItemClick(id)
  \/ StartNewConversationOp

SpecSession == Init /\ [][NextSession]_vars

\* telemetry of both channels: one kind that sets the processing flag and one
\* that clears it on the ambient channel
TelemetryAmbientFrames ==
  {f \in ParsedAmbientFrames : f.type \in {"thinking", "found_insight"}}

TelemetryChatFrames ==
  {f \in ThoughtFrames : f.thought_type = "thinking"} \cup SessionFrames

\* the chat page with both channels: the ambient connection its mount effect
\* opens and the exchanges of handleSend
NextTelemetry ==
  \/ \E throws \in BOOLEAN : Connect(throws)
  \/ Disconnect
  \/ \E a \in AmbIds : AmbOpen(a)
  \/ \E a \in AmbIds, f \in TelemetryAmbientFrames : AmbMessage(a, f)
  \/ \E a \in AmbIds : AmbCloseEvent(a)
  \/ \E throws \in BOOLEAN : HandleSend(throws)
  \/ \E e \in ExIds : ChatOpen(e)
  \/ \E e \in ExIds, f \in TelemetryChatFrames : ChatMessage(e, f)
  \/ \E e \in ExIds : ChatCloseEvent(e)

SpecTelemetry == Init /\ [][NextTelemetry]_vars

\* the active dashboard store over a storage that earlier visits wrote
NextDashboard ==
  \/ \E d \in DashIds : ActivateDashboard(d)
  \/ DeactivateDashboard
  \/ \E charts \in NewChartLists : UpdateChartsOp(charts)
  \/ \E chart \in NewCharts : AddChartOp(chart)
  \/ \E index \in ChartIndexes : RemoveChartOp(index)
  \/ \E index \in ChartIndexes, chart \in NewCharts : ReplaceChartOp(index, chart)

SpecDashboard == InitStorage /\ [][NextDashboard]_vars

\* ================================================================ claims
ErrorText(f) == IF f.content = "" THEN "Chat error" ELSE f.content

\* exchange e receives a response frame in this step
ResponseStep(e) == responseData'[e] # responseData[e]

\* exchange e receives its first terminal frame in this step, an error frame
FirstErrorStep(e) ==
  /\ ~IsSome(firstTerm[e])
  /\ IsSome(firstTerm'[e])
  /\ firstTerm'[e][1].type = "error"

\* exchange e is rejected by an error frame in this step
ErrorFrameStep(e) ==
  /\ promise[e].k = "pending"
  /\ promise'[e].k = "err"
  /\ promise'[e].m \notin {TransportMsg, CtorMsg}

FallbacksOf(msgs, e) ==
  {i \in 1..Len(msgs) : msgs[i].ex = e /\ msgs[i].kind = "fallback"}

\* every exchange dispatched so far has had its close event (or never got a socket)
Quiescent ==
  /\ nextEx > 0
  /\ \A e \in 1..nextEx : chatRs[e] \in {"CLOSED", "NOSOCKET"}

C2_ClosedImpliesSettled ==
  \A e \in ExIds : chatRs[e] = "CLOSED" => promise[e].k # "pending"

\* C3: when a terminal frame (response or error) arrives for an exchange that
\* was pending when handleStop ran, the conversation holds no assistant
\* message of that exchange and no dashboard was created for it.
C3_AbortSuppressesEffects ==
  [][\A e \in ExIds :
       (aborted[e] /\ (ResponseStep(e) \/ ErrorFrameStep(e))) =>
         /\ \A i \in 1..Len(messages') :
              ~(messages'[i].ex = e /\ messages'[i].role = "assistant")
         /\ \A i \in 1..Len(dashboards') : dashboards'[i].ex # e]_vars

\* C4: the step in which a response frame arrives for an aborted exchange
\* leaves isProcessing and isLoading as they were.
C4_LateResponseKeepsFlags ==
  [][\A e \in ExIds :
       (aborted[e] /\ ResponseStep(e)) =>
         (isLoading' = isLoading /\ isProcessing' = isProcessing)]_vars

\* C5: the thought store holds the forwarded events in arrival order, and no
\* thought frame of an exchange is recorded once the exchange is fulfilled
\* (its response is applied in the step that fulfils it).
C5_ThoughtsBeforeResponse ==
  [][/\ \A i, j \in 1..Len(thoughts') : i < j => thoughts'[i].n < thoughts'[j].n
     /\ \A e \in ExIds :
          promise[e].k = "ok" =>
            ~(/\ nThoughts' = nThoughts + 1
              /\ thoughts'[Len(thoughts')].src = e)]_vars

\* an applied response with two thought frames of its exchange before it
C5_Witness ==
  \E e \in ExIds :
    /\ promise[e].k = "ok"
    /\ \E i \in 1..Len(messages) : messages[i].ex = e /\ messages[i].kind = "reply"
    /\ \E i, j \in 1..Len(thoughts) :
         i < j /\ thoughts[i].src = e /\ thoughts[j].src = e

\* C6: when an error frame is the first terminal frame of an exchange, the
\* exchange is rejected with the frame's text, isProcessing is false, the
\* socket of the exchange is no longer connecting or open, and the exchange
\* is never fulfilled afterwards.
C6_ErrorFrameRejectsAndCloses ==
  [][\A e \in ExIds :
       /\ FirstErrorStep(e) =>
            /\ promise'[e] = Rejected(ErrorText(firstTerm'[e][1]))
            /\ ~isProcessing'
            /\ chatRs'[e] \notin {"CONNECTING", "OPEN"}
       /\ (IsSome(firstTerm[e]) /\ firstTerm[e][1].type = "error") =>
            promise'[e].k # "ok"]_vars

\* C7: a chat-page exchange that is rejected while not aborted appends exactly
\* one fallback message, and once every socket has closed isLoading is false.
C7_OneFallbackAndUnblocked ==
  [][/\ \A e \in ExIds :
          /\ Cardinality(FallbacksOf(messages', e)) <= 1
          /\ (/\ origin'[e] = "chat"
              /\ promise[e].k = "pending"
              /\ promise'[e].k = "err"
              /\ ~aborted[e]) =>
                Cardinality(FallbacksOf(messages', e)) = 1
     /\ Quiescent' => ~isLoading']_vars

\* C8: an exchange whose socket closed with no response frame and no error
\* is fulfilled.
C8_CloseWithoutFrameFulfils ==
  \A e \in ExIds :
    (chatRs[e] = "CLOSED" /\ ~IsSome(responseData[e]) /\ promise[e].k # "err")
      => promise[e].k = "ok"

\* C9: the value an exchange is fulfilled with carries reply, charts, session
\* id, intent and dashboard_update of its response frame; a replace_all
\* update sets the active dashboard's charts to the update's list, and a
\* dashboard intent with charts creates a dashboard from the chat page.
C9_ValueCarriesResponseFields ==
  [][\A e \in ExIds :
       (/\ promise[e].k = "pending"
        /\ promise'[e].k = "ok"
        /\ IsSome(firstTerm'[e])
        /\ firstTerm'[e][1].type = "response") =>
         LET f == firstTerm'[e][1]
             v == promise'[e].v
             du == f.dashboard_update
         IN /\ v.reply = f.reply
            /\ v.charts = (IF IsSome(f.charts) THEN f.charts[1] ELSE <<>>)
            /\ v.session_id = (IF IsSome(f.session_id) THEN f.session_id[1]
                               ELSE reqSession[e])
            /\ IsSome(f.intent) => Field(v, "intent") = f.intent
            /\ IsSome(du) => Field(v, "dashboard_update") = du
            /\ (/\ origin[e] = "bar"
                /\ IsSome(du)
                /\ du[1].action = "replace_all"
                /\ IsSome(du[1].charts)
                /\ IsSome(dashboard)) =>
                 (IsSome(dashboard') /\ dashboard'[1].charts = du[1].charts[1])
            /\ (/\ origin[e] = "chat"
                /\ ~abortRef
                /\ f.intent = Some("dashboard")
                /\ v.charts # <<>>) =>
                 Len(dashboards') = Len(dashboards) + 1]_vars

\* C10: while the connection is cancelled no reconnect timer is pending and
\* no ambient socket is constructed.
C10_NoReconnectAfterCancel ==
  [][cancelled' => (reconnectTimer' = 0 /\ (cancelled => ambNext' = ambNext))]_vars

\* an ambient socket that still has events to come
LiveSocket ==
  \E a \in AmbIds : ambRs[a] \in {"CONNECTING", "OPEN", "CLOSING", "FAILING", "ERRORED"}

C13_HealthyCancellerIsNoop ==
  [][(healthyCall /\ cancelled') =>
       UNCHANGED <<thoughtSocket, ambRs, reconnectTimer, timers>>]_vars

\* C14: while the connection is not cancelled, once an ambient socket has
\* closed there is always a socket with events to come or a pending reconnect
\* timeout; and whenever a timeout is pending and no socket is left, a new
\* connection attempt is made (or the connection is cancelled).
C14_ReconnectsUnlessCancelled ==
  /\ []((~cancelled /\ \E a \in AmbIds : ambRs[a] = "CLOSED") =>
          (LiveSocket \/ reconnectTimer \in timers))
  /\ \A b \in {0, 1} :
       (~cancelled /\ ~LiveSocket /\ reconnectTimer # 0 /\ attempts.n = b)
         ~> (cancelled \/ attempts.n # b)

\* after a socket closed, the timeout fired and its attempt constructed the
\* socket that is now connecting
C14_Witness ==
  /\ ~cancelled
  /\ attempts.by = "timer"
  /\ ambRs[1] = "CLOSED"
  /\ thoughtSocket = 2
  /\ ambRs[2] = "CONNECTING"

\* C15: the step in which an unparsable frame arrives, on the ambient channel
\* or on the channel of an exchange, adds no thought, leaves isProcessing and
\* the loading flags unchanged, settles no promise, appends no message and
\* closes no socket.
C15_UnparsableFrameDropped ==
  [][dropped' # dropped =>
       UNCHANGED <<thoughts, nThoughts, isProcessing, isLoading, barLoading,
                   promise, responseData, messages, panel, chatRs, ambRs>>]_vars

\* unparsable frames have arrived on both channels and the exchange that
\* received one is still pending on its open socket
C15_Witness ==
  /\ dropped = {"ambient", "exchange"}
  /\ \E e \in ExIds : chatRs[e] = "OPEN" /\ promise[e].k = "pending"
  /\ isProcessing
  /\ isLoading

\* C16: every step that records a thought, from the ambient channel or from
\* an exchange, sets isProcessing by the kind of that thought: true for
\* thinking and executing_sql, false for found_insight, generating_chart and
\* error.
C16_LatchFollowsLastEvent ==
  [][nThoughts' = nThoughts + 1 =>
       LET t == thoughts'[Len(thoughts')].type
       IN /\ t \in {"thinking", "executing_sql"} => isProcessing'
          /\ t \in {"found_insight", "generating_chart", "error"} => ~isProcessing']_vars

\* the records of a collection without their updatedAt
Content(convos) ==
  [i \in 1..Len(convos) |->
     [id |-> convos[i].id, title |-> convos[i].title, messages |-> convos[i].messages]]

UniqueIds(convos) ==
  \A i, j \in 1..Len(convos) : i # j => convos[i].id # convos[j].id

SortedByRecency(convos) ==
  \A i, j \in 1..Len(convos) : i < j => convos[i].updatedAt >= convos[j].updatedAt

Without(convos, id) == SelectSeq(convos, LAMBDA c : c.id # id)

\* C17: the history, in memory and persisted, holds at most one record per
\* session id; and archiving the current session again, right after it was
\* archived with the same messages, changes nothing in either collection
\* but updatedAt (same records, titles, messages and order).
C17_OneRecordPerSessionIdempotent ==
  /\ [](UniqueIds(history) /\ UniqueIds(stored))
  /\ [][(lastSaved /\ saveTimers' < saveTimers) =>
          (/\ Content(history') = Content(history)
           /\ Content(stored') = Content(stored))]_vars

\* C18: the persisted collection holds at most HistoryCap records, newest
\* updatedAt first; once more than HistoryCap sessions are archived it holds
\* exactly HistoryCap records, and no archived session it leaves out was
\* updated later than one it holds.
C18_RetentionBound ==
  /\ Len(stored) <= HistoryCap
  /\ SortedByRecency(stored)
  /\ Len(history) > HistoryCap => Len(stored) = HistoryCap
  /\ \A i \in 1..Len(stored) : \E j \in 1..Len(history) : history[j] = stored[i]
  /\ \A j \in 1..Len(history) :
       (\A i \in 1..Len(stored) : stored[i].id # history[j].id) =>
         \A i \in 1..Len(stored) : stored[i].updatedAt >= history[j].updatedAt

\* three sessions were archived at different times and the persisted
\* collection holds the two updated last
C18_Witness ==
  /\ Len(history) = HistoryCap + 1
  /\ Len(stored) = HistoryCap
  /\ history[HistoryCap + 1].updatedAt < stored[HistoryCap].updatedAt
  /\ stored[1].updatedAt > stored[HistoryCap].updatedAt

\* C19: loadConversation(id) for a session in history, called with a
\* non-empty log, leaves the persisted record of the previous session holding
\* the whole previous log, and the in-memory log and session id are those of
\* the target record of the history.
C19_SwitchFlushesThenLoads ==
  [][\A id \in SessionIds :
       (/\ LoadConversationOp(id)
        /\ Len(messages) > 0
        /\ FindIndex(history, id) > 0) =>
         /\ \E i \in 1..Len(stored') :
              stored'[i].id = sessionId /\ stored'[i].messages = messages
         /\ sessionId' = id
         /\ messages' = history'[FindIndex(history', id)].messages]_vars

\* C20: deleteConversation(id) removes the record of id from the in-memory
\* and the persisted history, leaves the other records of both and their
\* order as they were, and leaves the message log and the session id alone.
C20_DeleteRemovesOnlyThatRecord ==
  [][\A id \in SessionIds :
       DeleteConversationOp(id) =>
         /\ history' = Without(history, id)
         /\ stored' = Without(stored, id)
         /\ messages' = messages
         /\ sessionId' = sessionId]_vars

\* the record of session id in a collection, None when there is none
RecordOf(convos, id) ==
  IF FindIndex(convos, id) > 0 THEN Some(convos[FindIndex(convos, id)]) ELSE None

\* the records of a collection other than that of id stamped at or after t
AsRecentAs(convos, id, t) ==
  {i \in 1..Len(convos) : convos[i].id # id /\ convos[i].updatedAt >= t}

ChartOpStep ==
  \/ \E charts \in NewChartLists : UpdateChartsOp(charts)
  \/ \E chart \in NewCharts : AddChartOp(chart)
  \/ \E index \in ChartIndexes : RemoveChartOp(index)
  \/ \E index \in ChartIndexes, chart \in NewCharts : ReplaceChartOp(index, chart)

\* the key dashboard-<id> holds the JSON text of a non-empty list
HoldsCharts(id) ==
  /\ persisted[id] # None
  /\ persisted[id][1].parses
  /\ Len(persisted[id][1].value) > 0

C23_InactiveOpsAreNoops ==
  [][/\ (dashboard = None /\ ChartOpStep) =>
          (dashboard' = None /\ persisted' = persisted)
     /\ DeactivateDashboard => (dashboard' = None /\ persisted' = persisted)]_vars

\* replaceChart ran with no active dashboard, after an earlier edit of d1 was
\* persisted and d1 was deactivated
C23_Witness ==
  /\ lastOp.op = "replaceChart"
  /\ ~lastOp.active
  /\ dashboard = None
  /\ persisted["d1"] = Some(JsonOf(<<"c1", "x">>))

\* C24: every chart operation applied to an active dashboard leaves, under
\* the key of that dashboard, the JSON text of a list equal to the active
\* chart list, and leaves the keys of the other dashboards as they were.
C24_MutationPersistsActiveList ==
  [][(dashboard # None /\ ChartOpStep) =>
       /\ dashboard' # None
       /\ persisted'[dashboard'[1].id] = Some(JsonOf(dashboard'[1].charts))
       /\ \A d \in DashIds \ {dashboard'[1].id} : persisted'[d] = persisted[d]]_vars

\* the list without the element at index (counted from 0)
RemoveAt(list, index) ==
  [k \in 1..Len(list) - 1 |-> IF k <= index THEN list[k] ELSE list[k + 1]]

\* the charts of a list: its entries other than holes and undefined
ChartsOf(list) == SelectSeq(list, LAMBDA c : c \notin {Hole, Undefined})

\* C25: removeChart(i) on an active dashboard with 0 <= i < length gives the
\* charts of the list without the one at position i, the others in their
\* order (the list without position i when it has no hole); addChart(c) gives
\* a list one longer that ends with c and keeps the charts and their order.
C25_RemoveAndAddKeepOrder ==
  [][/\ \A index \in ChartIndexes :
          (/\ dashboard # None
           /\ 0 <= index
           /\ index < Len(dashboard[1].charts)
           /\ RemoveChartOp(index)) =>
             /\ dashboard' # None
             /\ ChartsOf(dashboard'[1].charts) =
                  ChartsOf(RemoveAt(dashboard[1].charts, index))
             /\ Hole \notin {dashboard[1].charts[k] : k \in 1..Len(dashboard[1].charts)} =>
                  dashboard'[1].charts = RemoveAt(dashboard[1].charts, index)
     /\ \A chart \in NewCharts :
          (dashboard # None /\ AddChartOp(chart)) =>
             /\ dashboard' # None
             /\ Len(dashboard'[1].charts) = Len(dashboard[1].charts) + 1
             /\ dashboard'[1].charts[Len(dashboard'[1].charts)] = chart
             /\ ChartsOf(dashboard'[1].charts) =
                  Append(ChartsOf(dashboard[1].charts), chart)]_vars

\* removeChart(1) on [x, y, z] gave [x, z]
C25_Witness ==
  /\ lastOp.op = "removeChart"
  /\ lastOp.active
  /\ dashboard # None
  /\ dashboard[1].charts = <<"x", "z">>

\* C26: deactivating a dashboard and activating it again from its source
\* definition gives the chart list it had when it was deactivated.
C26_EditsSurviveReload ==
  [][\A d \in DashIds :
       (/\ ActivateDashboard(d)
        /\ lastOp.left # None
        /\ lastOp.left[1].id = d) =>
          /\ dashboard' # None
          /\ dashboard'[1].charts = lastOp.left[1].charts]_vars

\* a collection holds a record of session id whose messages include content
Holds(convos, id, content) ==
  /\ RecordOf(convos, id) # None
  /\ \E i \in 1..Len(RecordOf(convos, id)[1].messages) :
       RecordOf(convos, id)[1].messages[i].content = content

\* the persisted history holds the followed message in a record of its
\* session, or that record was deleted since the message was added, or the
\* record with the message is in the history and the retention bound keeps
\* it out of the persisted collection
WatchedPersisted ==
  \/ Holds(stored, watched.sid, watched.content)
  \/ watched.deleted
  \/ /\ Holds(history, watched.sid, watched.content)
     /\ RecordOf(stored, watched.sid) = None

\* C27: when an assistant message is added to the log (any one of the run,
\* followed from the step that adds it), a state follows in which the
\* persisted history holds a record of the session that was current at that
\* step with the message among its messages, unless the record was deleted
\* or the retention bound keeps it out.
C27_AssistantMessageGetsPersisted ==
  [](watched.sid = "") \/ <>WatchedPersisted

\* the followed message was added under s1 and a new conversation was
\* started before the timeout fired: the persisted record of s1 holds it
C27_Witness ==
  /\ watched.sid = SessionName(1)
  /\ sessionId = SessionName(2)
  /\ saveTimers > 0
  /\ Holds(stored, watched.sid, watched.content)

\* C28: the flush of assistant messages is debounced: when a timeout set by
\* addMessage fires and writes the history, no other such timeout is pending
\* (the timeouts pending together were set within one 100 ms window), so the
\* messages added in one window are written once.
C28_FlushIsDebounced ==
  [][(AutosaveFire /\ Len(messages) > 0) => saveTimers' = 0]_vars

\* a list is an initial part of another
IsPrefix(a, b) == Len(a) <= Len(b) /\ SubSeq(b, 1, Len(a)) = a

\* C29: the in-memory log belongs to one session: every message of the log
\* that an exchange appended (the question, the reply, the fallback) comes
\* from an exchange dispatched under the current session id, and while the
\* session id stays the same the log only grows at its end.
C29_LogBelongsToSession ==
  /\ [](\A i \in 1..Len(messages) :
         messages[i].ex > 0 => reqSession[messages[i].ex] = sessionId)
  /\ [][sessionId' = sessionId => IsPrefix(messages, messages')]_vars

\* an operation is in flight: a caller waits for an exchange, or an exchange
\* that was dispatched has not settled
InFlight ==
  isLoading \/ barLoading \/ \E e \in 1..nextEx : promise[e] = Pending

\* C30: the thought store is bounded and holds only events of the in-flight
\* window: it never holds as many events as were delivered once MaxThoughts
\* events were delivered, and an event is added to it only while an
\* operation is in flight.
C30_ThoughtStoreBounded ==
  /\ [](Len(thoughts) < MaxThoughts)
  /\ [][Len(thoughts') > Len(thoughts) => InFlight]_vars

Unresolved(e) ==
  e <= nextEx /\ origin[e] = "chat" /\ promise[e] = Pending /\ ~aborted[e]

\* C32: from the chat page at most one exchange that was not stopped is
\* unresolved at any time, and while there is one handleSend dispatches
\* nothing: its guard `if (isLoading) return` is closed.
C32_OneUnresolvedExchange ==
  /\ Cardinality({e \in ExIds : Unresolved(e)}) <= 1
  /\ (\E e \in ExIds : Unresolved(e)) => isLoading

\* C33: each exchange uses its own connection: a request payload is only
\* ever written to the socket opened for its exchange, the step in which the
\* socket of an exchange opens writes the payload of that exchange to it, and
\* a frame of an exchange changes the readyState of no other exchange's
\* socket (the close on response, done or error is of its own socket).
C33_OwnConnection ==
  /\ [](\A s, e \in ExIds : e \in sent[s] => s = e)
  /\ [][\A e \in ExIds :
          /\ ChatOpen(e) => sent' = [sent EXCEPT ![e] = @ \cup {e}]
          /\ (\E f \in ParsedChatFrames : ChatMessage(e, f))
               => \A s \in ExIds \ {e} : chatRs'[s] = chatRs[s]]_vars

\* the ambient sockets that are connecting or open
LiveAmbient == {a \in AmbIds : ambRs[a] \in {"CONNECTING", "OPEN"}}

\* C34: at most one ambient socket that is connecting or open exists at any
\* time, whatever the order of connectThoughtStream calls, reconnect
\* timeouts, opens, errors, closes and cancellations.
C34_OneLiveAmbientSocket == Cardinality(LiveAmbient) <= 1

\* C35: the close event of an ambient socket that is not the one the module
\* tracks (it was replaced by a newer socket) leaves thoughtSocket as it is.
C35_StaleCloseKeepsCurrent ==
  [][\A a \in AmbIds :
       (AmbCloseEvent(a) /\ thoughtSocket # 0 /\ thoughtSocket # a)
         => thoughtSocket' = thoughtSocket]_vars

\* exchange e, dispatched from the floating chat bar, settles in this step
\* and the rest of the bar's handleSend runs
BarSettles(e) ==
  e <= nextEx /\ origin[e] = "bar" /\ promise[e] = Pending /\ promise'[e] # Pending

\* C36: the step in which an exchange of the floating chat bar settles
\* changes the chart list of no dashboard but the one that was the context of
\* its dispatch: the persisted list of every other dashboard is as before,
\* and so is the active dashboard when it is another one.
C36_ChartsGoToContextDashboard ==
  [][\A e \in ExIds : BarSettles(e) =>
       /\ \A y \in DashIds \ {reqContext[e]} : persisted'[y] = persisted[y]
       /\ (IsSome(dashboard) /\ dashboard[1].id # reqContext[e])
            => dashboard' = dashboard]_vars

\* C37: loadConversation(id) with id the current session id leaves the
\* in-memory log as it is, and no step replaces the persisted record of a
\* session by one with a log that does not extend the log it held.
C37_ReloadOfCurrentKeepsLog ==
  /\ [][LoadConversationOp(sessionId) => messages' = messages]_vars
  /\ [][\A id \in SessionIds :
          (RecordOf(stored, id) # None /\ RecordOf(stored', id) # None)
            => IsPrefix(RecordOf(stored, id)[1].messages,
                        RecordOf(stored', id)[1].messages)]_vars

\* C38: the in-memory history list is the collection written to persistence,
\* record for record and in the same order, so it holds at most HistoryCap
\* records and nothing a reload would not restore.
C38_HistoryEqualsPersisted ==
  /\ history = stored
  /\ Len(history) <= HistoryCap

\* C39: replaceChart(i, c) on an active dashboard whose list has no missing
\* entry keeps the length of the list, for every index i, changes no position
\* other than i, and leaves no missing entry in it.
C39_ReplaceKeepsLength ==
  [][\A index \in ChartIndexes, chart \in NewCharts :
       (/\ ReplaceChartOp(index, chart)
        /\ IsSome(dashboard)
        /\ ChartsOf(dashboard[1].charts) = dashboard[1].charts)
       => LET old == dashboard[1].charts
              new == dashboard'[1].charts
          IN /\ Len(new) = Len(old)
             /\ \A k \in 1..Len(old) : k # index + 1 => new[k] = old[k]
             /\ ChartsOf(new) = new]_vars

====
